---- MODULE Spec2Model ----
(***************************************************************************)
(* Soma Status Monitor: the health check script (src/astro.config.mjs,     *)
(* lines 11-254) as a state machine.  One run = load config, build the     *)
(* check list, execute every check concurrently, report, fold the entry    *)
(* into today's daily file, clean up old data.                             *)
(*                                                                         *)
(* Conventions                                                             *)
(*  - a calendar date "YYYY-MM-DD" is the tuple <<Y, M, D>>; the string    *)
(*    comparison of the script is the lexicographic order on the tuples;   *)
(*  - the wall clock is the pair (today, elapsed): today counts UTC days   *)
(*    since 2023-01-01, elapsed is the milliseconds since the probes of    *)
(*    the current run were started;                                        *)
(*  - uptimePercent is kept in hundredths of a percent (10000 = 100.00).   *)
(***************************************************************************)
EXTENDS Integers, Sequences, FiniteSets, TLC

VARIABLES
    config,      \* parsed data/config.json, or its failure to parse
    fs,          \* data/checks: file name (a date) -> file content
    today,       \* wall clock: UTC day number
    elapsed,     \* wall clock: ms since the probes of this run started
    pc,          \* position of the script
    checks,      \* the list built by buildChecks
    pstate,      \* per check (by index): position of its executeCheck
    timer,       \* per check: the abort timer is armed
    presult,     \* per check: responseTime/statusCode/status known so far
    results,     \* runAllChecks: results object, id -> result
    timestamp,   \* runAllChecks: the date part of its timestamp
    checkEntry,  \* value returned by runAllChecks
    report,      \* the "Results: ..." line of the current run
    log,         \* console output of the current run, one tag per line
    fsOps,       \* unlink/write calls made by the last handler that ran
    runs,        \* number of runs triggered so far
    exitCode     \* process exit status of the current run

vars == <<config, fs, today, elapsed, pc, checks, pstate, timer, presult,
          results, timestamp, checkEntry, report, log, fsOps, runs, exitCode>>

-----------------------------------------------------------------------------
(* Bounds of the model *)

MaxRuns == 2
MaxDays == 1
MaxEntries == 5
LifeDays == 2
StartDay == 439

-----------------------------------------------------------------------------
(* Calendar: Date -> toISOString().split('T')[0] *)

IsLeap(y) == (y % 4 = 0) /\ ((y % 100 # 0) \/ (y % 400 = 0))

DaysInYear(y) == IF IsLeap(y) THEN 366 ELSE 365

DaysInMonth(y, m) ==
    IF m = 2 THEN (IF IsLeap(y) THEN 29 ELSE 28)
    ELSE IF m \in {4, 6, 9, 11} THEN 30 ELSE 31

RECURSIVE YearSplit(_, _)
YearSplit(n, y) ==
    IF n < DaysInYear(y) THEN <<y, n>> ELSE YearSplit(n - DaysInYear(y), y + 1)

RECURSIVE MonthSplit(_, _, _)
MonthSplit(y, n, m) ==
    IF n < DaysInMonth(y, m) THEN <<m, n + 1>>
    ELSE MonthSplit(y, n - DaysInMonth(y, m), m + 1)

\* new Date(<day n>).toISOString().split('T')[0]
DateStr(n) ==
    LET ys == YearSplit(n, 2023)
        md == MonthSplit(ys[1], ys[2], 1)
    IN  <<ys[1], md[1], md[2]>>

\* JavaScript's `a < b` on two "YYYY-MM-DD" strings
StrLess(a, b) ==
    \/ a[1] < b[1]
    \/ a[1] = b[1] /\ a[2] < b[2]
    \/ a[1] = b[1] /\ a[2] = b[2] /\ a[3] < b[3]

-----------------------------------------------------------------------------
(* Configuration *)

NoFn == [x \in {} |-> 0]

\* timeout 0 stands for an absent timeout; validate FALSE for an absent rule
ApiComp == [id |-> "api", timeout |-> 6000, validate |-> TRUE]
CdnExt == [id |-> "cdn", timeout |-> 0]
DupExt == [id |-> "api", timeout |-> 0]

\* one validated component and one external dependency
ConfigGood == [parsed |-> TRUE, groups |-> << <<ApiComp>> >>, external |-> <<CdnExt>>]
\* one validated component alone
ConfigSolo == [parsed |-> TRUE, groups |-> << <<ApiComp>> >>, external |-> <<>>]
\* a component and an external dependency under the same id
ConfigDup == [parsed |-> TRUE, groups |-> << <<ApiComp>> >>, external |-> <<DupExt>>]
\* a config.json that is missing or does not parse
ConfigBad == [parsed |-> FALSE, groups |-> <<>>, external |-> <<>>]

\* the configurations of the successive runs
Configs == {ConfigSolo, ConfigBad}

\* the configurations of the single run
RunConfigs == {ConfigGood, ConfigDup}

RECURSIVE Flatten(_)
Flatten(ss) == IF ss = <<>> THEN <<>> ELSE Head(ss) \o Flatten(Tail(ss))

\* comp.timeout || 10000
TimeoutOr(t) == IF t = 0 THEN 10000 ELSE t

CompCheck(comp) ==
    [id |-> comp.id, timeout |-> TimeoutOr(comp.timeout),
     validate |-> comp.validate, expectedStatusCodes |-> {200}]

ExtCheck(ext) ==
    [id |-> ext.id, timeout |-> TimeoutOr(ext.timeout),
     validate |-> FALSE, expectedStatusCodes |-> {200}]

buildChecks(cfg) ==
    LET comps == Flatten(cfg.groups)
    IN  [i \in 1..Len(comps) |-> CompCheck(comps[i])]
        \o [i \in 1..Len(cfg.external) |-> ExtCheck(cfg.external[i])]

-----------------------------------------------------------------------------
(* executeCheck: classification of one response *)

Result(st, rt, code) == [status |-> st, responseTime |-> rt, statusCode |-> code]

\* responseTime > check.timeout * 0.5
\* a threshold that already counts exactly half the timeout as slow
IsDegradedInclusive(check, responseTime) == 2 * responseTime >= check.timeout

IsDegraded(check, responseTime) == 2 * responseTime > check.timeout

\* a catch block that reports an abandoned request as merely slow
CaughtDegraded(responseTime) == Result("degraded", responseTime, 0)

\* a catch block that does not read the clock
CaughtAtZero(responseTime) == Result("down", 0, 0)

\* the catch block of executeCheck
Caught(responseTime) == Result("down", responseTime, 0)

\* every down result built like the one of the catch block, statusCode 0
ClassifyCodeLost(check, responseTime, statusCode, validationPassed) ==
    IF ~(statusCode \in check.expectedStatusCodes) \/ ~validationPassed
    THEN Result("down", responseTime, 0)
    ELSE Result(IF IsDegraded(check, responseTime) THEN "degraded" ELSE "up",
                responseTime, statusCode)

Classify(check, responseTime, statusCode, validationPassed) ==
    IF statusCode \notin check.expectedStatusCodes \/ ~validationPassed
    THEN Result("down", responseTime, statusCode)
    ELSE IF IsDegraded(check, responseTime)
         THEN Result("degraded", responseTime, statusCode)
         ELSE Result("up", responseTime, statusCode)

-----------------------------------------------------------------------------
(* Daily files *)

File(ok, data) == [json |-> ok, data |-> data]

FreshDaily(date) == [date |-> date, checks |-> <<>>, summary |-> NoFn]

\* a file whose content does not parse as JSON
CorruptFile == File(FALSE, FreshDaily(<<0, 0, 0>>))

FreshSummary ==
    [totalChecks |-> 0, upChecks |-> 0, degradedChecks |-> 0, downChecks |-> 0,
     uptimePercent |-> 10000, avgResponseTime |-> 0, p95ResponseTime |-> 0]

\* Math.round(x / y) for x >= 0, y > 0
RoundDiv(x, y) == (2 * x + y) \div (2 * y)

\* the counting without its final else branch: a down result is not counted
CountResultNoDown(s, result) ==
    [s EXCEPT !.totalChecks = @ + 1,
              !.upChecks = IF result.status = "up" THEN @ + 1 ELSE @,
              !.degradedChecks = IF result.status = "degraded" THEN @ + 1 ELSE @]

\* s.totalChecks++ and the increment of one of the three status counters
CountResult(s, result) ==
    [s EXCEPT !.totalChecks = @ + 1,
              !.upChecks = IF result.status = "up" THEN @ + 1 ELSE @,
              !.degradedChecks = IF result.status = "degraded" THEN @ + 1 ELSE @,
              !.downChecks = IF result.status \notin {"up", "degraded"} THEN @ + 1 ELSE @]

\* an availability that counts only the up results
UptimePercentUpOnly(s) == RoundDiv(s.upChecks * 10000, s.totalChecks)

\* Math.round(((up + degraded) / total) * 100 * 100) / 100, in hundredths
UptimePercent(s) == RoundDiv((s.upChecks + s.degradedChecks) * 10000, s.totalChecks)

\* dailyFile.checks.map(c => c.results[id]?.responseTime).filter(t => t != null && t > 0)
RECURSIVE AllResponseTimes(_, _)
AllResponseTimes(cs, id) ==
    IF cs = <<>> THEN <<>>
    ELSE LET c == Head(cs)
             rest == AllResponseTimes(Tail(cs), id)
         IN  IF id \in DOMAIN c.results /\ c.results[id].responseTime > 0
             THEN <<c.results[id].responseTime>> \o rest
             ELSE rest

RECURSIVE SumSeq(_)
SumSeq(s) == IF s = <<>> THEN 0 ELSE Head(s) + SumSeq(Tail(s))

\* Math.floor(n * 0.95) - 1
P95IndexFloor(n) == ((19 * n) \div 20) - 1

\* Math.ceil(n * 0.95) - 1
P95Index(n) == ((19 * n + 19) \div 20) - 1

Max(a, b) == IF a > b THEN a ELSE b

Latency(s, times) ==
    IF Len(times) > 0
    THEN LET sorted == SortSeq(times, LAMBDA a, b : a < b)
         IN  [s EXCEPT !.avgResponseTime = RoundDiv(SumSeq(times), Len(times)),
                       !.p95ResponseTime = sorted[Max(0, P95Index(Len(sorted))) + 1]]
    ELSE s

\* body of the loop over Object.entries(checkEntry.results)
UpdateSummary(summary, id, result, cs) ==
    LET s0 == IF id \in DOMAIN summary THEN summary[id] ELSE FreshSummary
        s1 == CountResult(s0, result)
        s2 == [s1 EXCEPT !.uptimePercent = UptimePercent(s1)]
    IN  Latency(s2, AllResponseTimes(cs, id))

\* an aggregator that starts every update from an empty record
LoadDailyFresh(dir, date) == FreshDaily(date)

\* the daily file updateDailyFile starts from; the file is known to parse
LoadDaily(dir, date) ==
    IF date \in DOMAIN dir THEN dir[date].data ELSE FreshDaily(date)

\* the record updateDailyFile writes
UpdatedDaily(dailyFile, entry) ==
    LET cs == Append(dailyFile.checks, entry)
        ids == DOMAIN dailyFile.summary \cup DOMAIN entry.results
    IN  [date |-> dailyFile.date,
         checks |-> cs,
         summary |-> [id \in ids |->
                        IF id \in DOMAIN entry.results
                        THEN UpdateSummary(dailyFile.summary, id, entry.results[id], cs)
                        ELSE dailyFile.summary[id]]]

\* fs.writeFileSync(name, JSON.stringify(data))
WriteFile(dir, name, data) ==
    [f \in DOMAIN dir \cup {name} |-> IF f = name THEN File(TRUE, data) ELSE dir[f]]

\* JSON.parse of today's file throws
UpdateThrows(dir, day) == DateStr(day) \in DOMAIN dir /\ ~dir[DateStr(day)].json

updateDailyFile(dir, day, entry) ==
    WriteFile(dir, DateStr(day), UpdatedDaily(LoadDaily(dir, DateStr(day)), entry))

-----------------------------------------------------------------------------
(* Retention *)

\* a retention of 30 days under a status page of 90
CutoffStrMonth(day) == DateStr(day - 30)

CutoffStr(day) == DateStr(day - 90)

\* the status page: the number of days it shows
DAYS_TO_SHOW == 90

\* the status page: the dates it loads, oldest first
getDatesRange(days, day) == [k \in 1..days |-> DateStr(day - (days - k))]

\* a yesterday computed without the subtraction of one day
YesterdayStrSameDay(day) == DateStr(day)

YesterdayStr(day) == DateStr(day - 1)

\* date <= cutoffStr
IsOldInclusive(date, cutoffStr) == ~StrLess(cutoffStr, date)

\* date < cutoffStr
IsOld(date, cutoffStr) == StrLess(date, cutoffStr)

\* the files the first loop of cleanupOldData unlinks
Unlinked(dir, day) == {f \in DOMAIN dir : IsOld(f, CutoffStr(day))}

\* the test without its length part: an empty array is truthy
HasChecksTruthy(data) == TRUE

\* data.checks && data.checks.length > 0
HasChecks(data) == Len(data.checks) > 0

\* a compaction that rewrites the file from scratch
StripAll(data) == [data EXCEPT !.checks = <<>>, !.summary = NoFn]

\* data.checks = []
Strip(data) == [data EXCEPT !.checks = <<>>]

\* yesterday's file is rewritten without its checks
Stripped(dir, day) ==
    LET y == YesterdayStr(day)
    IN  IF y \in DOMAIN dir \ Unlinked(dir, day) /\ dir[y].json /\ HasChecks(dir[y].data)
        THEN {y} ELSE {}

cleanupOldData(dir, day) ==
    [f \in DOMAIN dir \ Unlinked(dir, day) |->
        IF f \in Stripped(dir, day) THEN File(TRUE, Strip(dir[f].data)) ELSE dir[f]]

\* the unlinkSync and writeFileSync calls cleanupOldData makes
CleanupOps(dir, day) ==
    {<<"unlink", f>> : f \in Unlinked(dir, day)} \cup {<<"write", f>> : f \in Stripped(dir, day)}

-----------------------------------------------------------------------------
(* Inputs of the model *)

\* instants (ms after the probes started) at which the clock is observed,
\* over successive runs and within the single run
TimePoints == {0, 6000, 10000}
FineTimePoints == {0, 3000, 5000, 6000, 10000, 12000}

\* status codes a server answers with
StatusCodes == {200, 500}

\* what response.json() and the comparison with validate.value come to
\* ("malformed": response.json() rejects)
Bodies == {"match", "mismatch", "malformed"}

\* entries of earlier runs
SeedEntry(day) ==
    [timestamp |-> DateStr(day),
     results |-> [id \in {"api", "cdn"} |->
                    IF id = "api" THEN Result("up", 3000, 200)
                    ELSE Result("degraded", 6000, 200)]]

SeedEntryDown(day) ==
    [timestamp |-> DateStr(day),
     results |-> [id \in {"api", "cdn"} |->
                    IF id = "api" THEN Result("down", 6000, 0)
                    ELSE Result("up", 3000, 200)]]

\* a daily file as two runs of its day left it
FullFile(day) ==
    File(TRUE, UpdatedDaily(UpdatedDaily(FreshDaily(DateStr(day)), SeedEntry(day)),
                            SeedEntryDown(day)))

\* a daily file as the retention of the following day left it
CompactFile(day) == File(TRUE, Strip(FullFile(day).data))

DirEmpty == NoFn

HistoryDays == {StartDay - 91, StartDay - 90, StartDay - 89, StartDay - 2, StartDay}

RECURSIVE DirOf(_)
DirOf(days) ==
    IF days = {} THEN NoFn
    ELSE LET d == CHOOSE x \in days : TRUE
             rest == DirOf(days \ {d})
         IN  [f \in DOMAIN rest \cup {DateStr(d)} |->
                 IF f = DateStr(d)
                 THEN (IF d >= StartDay - 2 THEN FullFile(d) ELSE CompactFile(d))
                 ELSE rest[f]]

\* a directory with history: compacted old files, the file of the day before
\* yesterday with its entries (no run took place yesterday), and today's file
DirHistory == DirOf(HistoryDays)

\* yesterday's and today's files do not parse
DirCorrupt ==
    [f \in {DateStr(StartDay - 1), DateStr(StartDay)} |-> CorruptFile]

InitDirs == {DirEmpty, DirHistory, DirCorrupt}

-----------------------------------------------------------------------------
(* The script *)

NoResult == Result("none", 0, 0)
NoEntry == [timestamp |-> <<0, 0, 0>>, results |-> NoFn]
NoReport == [up |-> 0, degraded |-> 0, down |-> 0, total |-> 0]

Init ==
    /\ config \in Configs
    /\ fs \in InitDirs
    /\ today = StartDay
    /\ elapsed = 0
    /\ pc = "load"
    /\ checks = <<>>
    /\ pstate = <<>>
    /\ timer = <<>>
    /\ presult = <<>>
    /\ results = NoFn
    /\ timestamp = <<0, 0, 0>>
    /\ checkEntry = NoEntry
    /\ report = NoReport
    /\ log = <<>>
    /\ fsOps = {}
    /\ runs = 1
    /\ exitCode = 0

\* main with the report moved behind the cleanup
AfterReportLast(step) ==
    CASE step = "checking" -> "aggregate"
      [] step = "aggregate" -> "cleanup"
      [] step = "cleanup" -> "report"
      [] step = "report" -> "done"

\* main: the statement that follows each step
After(step) ==
    CASE step = "checking" -> "report"
      [] step = "report" -> "aggregate"
      [] step = "aggregate" -> "cleanup"
      [] step = "cleanup" -> "done"

\* the process dies: "Monitor failed", process.exit(1)
Fail ==
    /\ pc' = "failed"
    /\ exitCode' = 1
    /\ log' = Append(log, "Monitor failed")

\* a loader that falls back to an empty configuration when the file is bad
LoadConfigLenient ==
    /\ pc = "load"
    /\ pc' = "main"
    /\ UNCHANGED <<config, fs, today, elapsed, checks, pstate, timer, presult,
                   results, timestamp, checkEntry, report, log, fsOps, runs,
                   exitCode>>

\* module level: JSON.parse(fs.readFileSync(config.json))
LoadConfig ==
    /\ pc = "load"
    /\ IF config.parsed
       THEN /\ pc' = "main"
            /\ UNCHANGED <<exitCode, log>>
       ELSE Fail
    /\ UNCHANGED <<config, fs, today, elapsed, checks, pstate, timer, presult,
                   results, timestamp, checkEntry, report, fsOps, runs>>

\* main up to the await: runAllChecks builds the list and starts every probe
StartChecks ==
    /\ pc = "main"
    /\ checks' = buildChecks(config)
    /\ timestamp' = DateStr(today)
    /\ log' = Append(log, "Running")
    /\ results' = NoFn
    /\ pstate' = [i \in DOMAIN checks' |-> "fetching"]
    /\ timer' = [i \in DOMAIN checks' |-> TRUE]
    /\ presult' = [i \in DOMAIN checks' |-> NoResult]
    /\ elapsed' = 0
    /\ pc' = "checking"
    /\ UNCHANGED <<config, fs, today, checkEntry, report, fsOps, runs, exitCode>>

\* results[check.id] = result
Store(res, id, result) ==
    [k \in DOMAIN res \cup {id} |-> IF k = id THEN result ELSE res[k]]

\* executeCheck returns `result`; the map callback resumes in the same turn
\* of the event loop, stores the result, and the probe's promise is fulfilled
Return(i, result) ==
    /\ pstate' = [pstate EXCEPT ![i] = "done"]
    /\ presult' = [presult EXCEPT ![i] = result]
    /\ results' = Store(results, checks[i].id, result)

\* fetch resolves with a response; the timer is cleared
FetchResolves(i, code) ==
    /\ pc = "checking"
    /\ pstate[i] = "fetching"
    /\ timer' = [timer EXCEPT ![i] = FALSE]
    /\ IF checks[i].validate /\ code \in checks[i].expectedStatusCodes
       THEN /\ pstate' = [pstate EXCEPT ![i] = "body"]
            /\ presult' = [presult EXCEPT ![i] = Result("none", elapsed, code)]
            /\ UNCHANGED results
       ELSE Return(i, Classify(checks[i], elapsed, code, TRUE))
    /\ UNCHANGED <<config, fs, today, elapsed, pc, checks, timestamp,
                   checkEntry, report, log, fsOps, runs, exitCode>>

\* fetch rejects (DNS, connection): the catch block
FetchRejects(i) ==
    /\ pc = "checking"
    /\ pstate[i] = "fetching"
    /\ timer' = [timer EXCEPT ![i] = FALSE]
    /\ Return(i, Caught(elapsed))
    /\ UNCHANGED <<config, fs, today, elapsed, pc, checks, timestamp,
                   checkEntry, report, log, fsOps, runs, exitCode>>

\* the timer fires: controller.abort() rejects the pending fetch
TimerFires(i) ==
    /\ pc = "checking"
    /\ pstate[i] = "fetching"
    /\ timer[i]
    /\ elapsed >= checks[i].timeout
    /\ timer' = [timer EXCEPT ![i] = FALSE]
    /\ Return(i, Caught(elapsed))
    /\ UNCHANGED <<config, fs, today, elapsed, pc, checks, timestamp,
                   checkEntry, report, log, fsOps, runs, exitCode>>

\* response.json() settles: the body decodes or not, the field matches or not
BodySettles(i, body) ==
    /\ pc = "checking"
    /\ pstate[i] = "body"
    /\ Return(i, Classify(checks[i], presult[i].responseTime,
                          presult[i].statusCode, body = "match"))
    /\ UNCHANGED <<config, fs, today, elapsed, pc, checks, timer, timestamp,
                   checkEntry, report, log, fsOps, runs, exitCode>>

\* a join that is fulfilled by the first probe to finish
SettledAny(ps) == \E i \in DOMAIN ps : ps[i] = "done"

\* Promise.allSettled(promises) is fulfilled
Settled(ps) == \A i \in DOMAIN ps : ps[i] = "done"

\* runAllChecks returns { timestamp, results }; no executeCheck is left to
\* read the clock, so the reading is dropped
AllSettled ==
    /\ pc = "checking"
    /\ Settled(pstate)
    /\ checkEntry' = [timestamp |-> timestamp, results |-> results]
    /\ pc' = After("checking")
    /\ elapsed' = 0
    /\ UNCHANGED <<config, fs, today, checks, pstate, timer, presult,
                   results, timestamp, report, log, fsOps, runs, exitCode>>

CountStatus(res, st) == Cardinality({k \in DOMAIN res : res[k].status = st})

\* main: count the results and print "Results: ..."
Report ==
    /\ pc = "report"
    /\ report' = [up |-> CountStatus(checkEntry.results, "up"),
                  degraded |-> CountStatus(checkEntry.results, "degraded"),
                  down |-> CountStatus(checkEntry.results, "down"),
                  total |-> Cardinality(DOMAIN checkEntry.results)]
    /\ log' = Append(log, "Results")
    /\ pc' = After("report")
    /\ UNCHANGED <<config, fs, today, elapsed, checks, pstate, timer, presult,
                   results, timestamp, checkEntry, fsOps, runs, exitCode>>

\* main: updateDailyFile(checkEntry)
UpdateDailyFile ==
    /\ pc = "aggregate"
    /\ IF UpdateThrows(fs, today)
       THEN /\ Fail
            /\ fsOps' = {}
            /\ UNCHANGED fs
       ELSE /\ fs' = updateDailyFile(fs, today, checkEntry)
            /\ fsOps' = {<<"write", DateStr(today)>>}
            /\ log' = Append(log, "Updated")
            /\ pc' = After("aggregate")
            /\ UNCHANGED exitCode
    /\ UNCHANGED <<config, today, elapsed, checks, pstate, timer, presult,
                   results, timestamp, checkEntry, report, runs>>

\* main: cleanupOldData() and "Done."
CleanupOldData ==
    /\ pc = "cleanup"
    /\ fs' = cleanupOldData(fs, today)
    /\ fsOps' = CleanupOps(fs, today)
    /\ log' = Append(log, "Done")
    /\ pc' = After("cleanup")
    /\ UNCHANGED <<config, today, elapsed, checks, pstate, timer, presult,
                   results, timestamp, checkEntry, report, runs, exitCode>>

\* the scheduler triggers the next run once the previous process has exited
NextRun ==
    /\ pc \in {"done", "failed"}
    /\ runs < MaxRuns
    /\ runs' = runs + 1
    /\ pc' = "load"
    /\ elapsed' = 0
    /\ checks' = <<>>
    /\ pstate' = <<>>
    /\ timer' = <<>>
    /\ presult' = <<>>
    /\ results' = NoFn
    /\ timestamp' = <<0, 0, 0>>
    /\ checkEntry' = NoEntry
    /\ report' = NoReport
    /\ log' = <<>>
    /\ fsOps' = {}
    /\ exitCode' = 0
    /\ UNCHANGED <<config, fs, today>>

\* time passes while probes are in flight; an armed timer fires at its deadline
TickTo(instants) ==
    /\ pc = "checking"
    /\ \E t \in instants :
          /\ t > elapsed
          /\ \A i \in DOMAIN checks :
                (pstate[i] = "fetching" /\ timer[i]) => t <= checks[i].timeout
          /\ elapsed' = t
    /\ UNCHANGED <<config, fs, today, pc, checks, pstate, timer, presult, results,
                   timestamp, checkEntry, report, log, fsOps, runs, exitCode>>

Tick == TickTo(TimePoints)

TickFine == TickTo(FineTimePoints)

\* UTC midnight passes
Midnight ==
    /\ today < StartDay + MaxDays
    /\ today' = today + 1
    /\ UNCHANGED <<config, fs, elapsed, pc, checks, pstate, timer, presult, results,
                   timestamp, checkEntry, report, log, fsOps, runs, exitCode>>

Next ==
    \/ LoadConfig
    \/ StartChecks
    \/ \E i \in DOMAIN checks, code \in StatusCodes : FetchResolves(i, code)
    \/ \E i \in DOMAIN checks : FetchRejects(i)
    \/ \E i \in DOMAIN checks : TimerFires(i)
    \/ \E i \in DOMAIN checks, body \in Bodies : BodySettles(i, body)
    \/ AllSettled
    \/ Report
    \/ UpdateDailyFile
    \/ CleanupOldData
    \/ NextRun
    \/ Tick
    \/ Midnight

\* successive runs over several days
Spec == Init /\ [][Next]_vars

\* one run on an empty data directory, followed at a finer grain of time
InitRun ==
    /\ config \in RunConfigs
    /\ fs = DirEmpty
    /\ today = StartDay
    /\ elapsed = 0
    /\ pc = "load"
    /\ checks = <<>>
    /\ pstate = <<>>
    /\ timer = <<>>
    /\ presult = <<>>
    /\ results = NoFn
    /\ timestamp = <<0, 0, 0>>
    /\ checkEntry = NoEntry
    /\ report = NoReport
    /\ log = <<>>
    /\ fsOps = {}
    /\ runs = 1
    /\ exitCode = 0

NextRunOnce ==
    \/ LoadConfig
    \/ StartChecks
    \/ \E i \in DOMAIN checks, code \in StatusCodes : FetchResolves(i, code)
    \/ \E i \in DOMAIN checks : FetchRejects(i)
    \/ \E i \in DOMAIN checks : TimerFires(i)
    \/ \E i \in DOMAIN checks, body \in Bodies : BodySettles(i, body)
    \/ AllSettled
    \/ Report
    \/ UpdateDailyFile
    \/ CleanupOldData
    \/ TickFine

SpecRun == InitRun /\ [][NextRunOnce]_vars

\* UTC midnight passes, over the days of a record's life
MidnightLife ==
    /\ today < StartDay + LifeDays
    /\ today' = today + 1
    /\ UNCHANGED <<config, fs, elapsed, pc, checks, pstate, timer, presult, results,
                   timestamp, checkEntry, report, log, fsOps, runs, exitCode>>

\* runs of a valid configuration, on an empty directory or on one with history
InitLife ==
    /\ config = ConfigSolo
    /\ fs \in {DirEmpty, DirHistory}
    /\ today = StartDay
    /\ elapsed = 0
    /\ pc = "load"
    /\ checks = <<>>
    /\ pstate = <<>>
    /\ timer = <<>>
    /\ presult = <<>>
    /\ results = NoFn
    /\ timestamp = <<0, 0, 0>>
    /\ checkEntry = NoEntry
    /\ report = NoReport
    /\ log = <<>>
    /\ fsOps = {}
    /\ runs = 1
    /\ exitCode = 0

NextLife ==
    \/ LoadConfig
    \/ StartChecks
    \/ \E i \in DOMAIN checks, code \in StatusCodes : FetchResolves(i, code)
    \/ \E i \in DOMAIN checks : FetchRejects(i)
    \/ \E i \in DOMAIN checks : TimerFires(i)
    \/ \E i \in DOMAIN checks, body \in Bodies : BodySettles(i, body)
    \/ AllSettled
    \/ Report
    \/ UpdateDailyFile
    \/ CleanupOldData
    \/ NextRun
    \/ Tick
    \/ MidnightLife

\* the life of the daily records over several days, runs on any of them
SpecLife == InitLife /\ [][NextLife]_vars

\* response times a probe of the component reports, 0 for a request that
\* failed within the first millisecond
SampleResults ==
    {Result("up", 100, 200), Result("up", 105, 200), Result("up", 110, 200),
     Result("up", 120, 200), Result("up", 500, 200), Result("down", 0, 0)}

\* what runAllChecks returns for the single-component configuration
SampleEntries(day) ==
    {[timestamp |-> DateStr(day), results |-> [id \in {ApiComp.id} |-> r]] :
        r \in SampleResults}

\* the aggregation of one day, from the first run's entry on
InitAggregate ==
    /\ config = ConfigSolo
    /\ fs = DirEmpty
    /\ today = StartDay
    /\ elapsed = 0
    /\ pc = "aggregate"
    /\ checks = <<>>
    /\ pstate = <<>>
    /\ timer = <<>>
    /\ presult = <<>>
    /\ results = NoFn
    /\ timestamp = DateStr(StartDay)
    /\ checkEntry \in SampleEntries(StartDay)
    /\ report = NoReport
    /\ log = <<"Running", "Results">>
    /\ fsOps = {}
    /\ runs = 1
    /\ exitCode = 0

\* the next run's entry reaches updateDailyFile
NextEntry ==
    /\ pc = "done"
    /\ runs < MaxEntries
    /\ runs' = runs + 1
    /\ checkEntry' \in SampleEntries(today)
    /\ pc' = "aggregate"
    /\ log' = <<"Running", "Results">>
    /\ fsOps' = {}
    /\ UNCHANGED <<config, fs, today, elapsed, checks, pstate, timer, presult,
                   results, timestamp, report, exitCode>>

NextAggregate ==
    \/ UpdateDailyFile
    \/ CleanupOldData
    \/ NextEntry

SpecAggregate == InitAggregate /\ [][NextAggregate]_vars

-----------------------------------------------------------------------------
(* Vocabulary of the properties *)

Range(f) == {f[x] : x \in DOMAIN f}

Statuses == {"up", "degraded", "down"}

RECURSIVE DaysBeforeYear(_)
DaysBeforeYear(y) == IF y <= 2023 THEN 0 ELSE DaysInYear(y - 1) + DaysBeforeYear(y - 1)

RECURSIVE DaysBeforeMonth(_, _)
DaysBeforeMonth(y, m) ==
    IF m <= 1 THEN 0 ELSE DaysInMonth(y, m - 1) + DaysBeforeMonth(y, m - 1)

\* the day number a file name denotes
DayNum(d) == DaysBeforeYear(d[1]) + DaysBeforeMonth(d[1], d[2]) + d[3] - 1

\* the step taken is the one handler named by the position it leaves
Leaves(step) == pc = step /\ pc' # step

Readable(dir, f) == f \in DOMAIN dir /\ dir[f].json

HasDuplicateIds(cs) == \E i, j \in DOMAIN cs : i # j /\ cs[i].id = cs[j].id

-----------------------------------------------------------------------------
(* C1: runAllChecks returns only after every launched probe has reached a  *)
(* terminal outcome (up, degraded or down), whatever the order in which    *)
(* the probes complete; a probe that went down (rejection, timeout) does   *)
(* not stop the others from completing and being recorded, nor the run     *)
(* from going on to the aggregation.                                       *)
C1_ReturnsAfterAllProbes ==
    pc \in {"report", "aggregate", "cleanup", "done"} =>
        /\ checks # <<>>
        /\ \A i \in DOMAIN checks :
              /\ pstate[i] = "done"
              /\ presult[i].status \in Statuses
              /\ checks[i].id \in DOMAIN checkEntry.results
              /\ checkEntry.results[checks[i].id].status \in Statuses

\* the batch has returned and is aggregated with one probe abandoned on its
\* timeout, after the other probe, with another id, had answered in time
C1_Witness ==
    /\ pc = "cleanup"
    /\ \E i, j \in DOMAIN checks :
          /\ checks[i].id # checks[j].id
          /\ presult[i] = Result("down", checks[i].timeout, 0)
          /\ presult[j].status = "up"
          /\ presult[j].responseTime < presult[i].responseTime
          /\ DOMAIN fs[DateStr(today)].data.summary = {checks[i].id, checks[j].id}

(* C2: in every persisted daily file that parses, every summary has        *)
(* upChecks + degradedChecks + downChecks = totalChecks and an             *)
(* uptimePercent between 0 and 100.                                        *)
C2_SummaryInvariant ==
    \A f \in DOMAIN fs : fs[f].json =>
        \A id \in DOMAIN fs[f].data.summary :
            LET s == fs[f].data.summary[id]
            IN  /\ s.upChecks + s.degradedChecks + s.downChecks = s.totalChecks
                /\ 0 <= s.uptimePercent
                /\ s.uptimePercent <= 10000

\* a file written by the aggregator whose summary mixes up and down results
C2_Witness ==
    /\ pc = "cleanup"
    /\ \E id \in DOMAIN fs[DateStr(today)].data.summary :
          LET s == fs[DateStr(today)].data.summary[id]
          IN  s.downChecks >= 2 /\ s.upChecks >= 1 /\ s.uptimePercent = 3333

(* C3: when today's daily file exists but does not parse, updateDailyFile  *)
(* goes on as if the day had no file: it writes a file holding exactly the *)
(* new entry and its summaries, and the run does not fail.                 *)
C3_CorruptFileRecovered ==
    [][(Leaves("aggregate") /\ UpdateThrows(fs, today)) =>
          /\ pc' = "cleanup"
          /\ Readable(fs', DateStr(today))
          /\ fs'[DateStr(today)].data =
                UpdatedDaily(FreshDaily(DateStr(today)), checkEntry)]_vars

(* C4: when the flattened check list holds two checks with the same id,    *)
(* the run fails before any probe is started: no check runs and nothing    *)
(* is aggregated.                                                          *)
C4_DuplicateIdRejected ==
    (config.parsed /\ HasDuplicateIds(buildChecks(config))) =>
        /\ pc \in {"load", "main", "failed"}
        /\ pstate = <<>>
        /\ fsOps = {}

(* C5: every probe is bounded by its own timeout: a probe that has no      *)
(* outcome yet has not been running for longer than its timeout.           *)
C5_ProbeBoundedByTimeout ==
    \A i \in DOMAIN checks :
        pstate[i] \in {"fetching", "body"} => elapsed <= checks[i].timeout

(* C6: cleanupOldData is idempotent: in the state one cleanup leaves, a    *)
(* second cleanup on the same date unlinks nothing, writes nothing and     *)
(* leaves the directory as it is.                                          *)
C6_CleanupIdempotent ==
    [][Leaves("cleanup") =>
          /\ cleanupOldData(fs', today') = fs'
          /\ CleanupOps(fs', today') = {}]_vars

\* a cleanup that both unlinked an old file and stripped yesterday's file
C6_Witness ==
    /\ pc = "done"
    /\ \E f \in HistoryDays : <<"unlink", DateStr(f)>> \in fsOps
    /\ \E f \in HistoryDays : <<"write", DateStr(f)>> \in fsOps

(* C7: after cleanupOldData has run on day T, every file dated more than   *)
(* 90 days before T is gone and every file dated T-90 or later is still    *)
(* there.                                                                  *)
C7_RetentionWindow ==
    [][Leaves("cleanup") =>
          \A f \in DOMAIN fs :
              /\ DayNum(f) < today - 90 => f \notin DOMAIN fs'
              /\ DayNum(f) >= today - 90 => f \in DOMAIN fs']_vars

\* the file dated T-91 has just been unlinked and the one dated T-90 is kept
C7_Witness ==
    /\ pc = "done"
    /\ <<"unlink", DateStr(today - 91)>> \in fsOps
    /\ DateStr(today - 90) \in DOMAIN fs
    /\ DateStr(today - 91) \notin DOMAIN fs

IsPrefix(s, t) == Len(s) <= Len(t) /\ \A k \in 1..Len(s) : s[k] = t[k]

RunOrder == <<"Running", "Results", "Updated", "Done">>

AbortedOrders ==
    {<<"Monitor failed">>, <<"Running", "Results", "Monitor failed">>}

C9_CompactionFrame ==
    [][Leaves("cleanup") =>
          LET y == YesterdayStr(today)
          IN  Readable(fs, y) =>
                /\ Readable(fs', y)
                /\ fs'[y].data.checks = <<>>
                /\ fs'[y].data.summary = fs[y].data.summary
                /\ fs'[y].data.date = fs[y].data.date
                /\ fs[y].data.checks = <<>> =>
                      (fs'[y] = fs[y] /\ <<"write", y>> \notin fsOps')]_vars

\* yesterday's file has just been stripped and still carries its summaries
C9_Witness ==
    /\ pc = "done"
    /\ <<"write", YesterdayStr(today)>> \in fsOps
    /\ Readable(fs, YesterdayStr(today))
    /\ fs[YesterdayStr(today)].data.checks = <<>>
    /\ \E id \in DOMAIN fs[YesterdayStr(today)].data.summary :
          fs[YesterdayStr(today)].data.summary[id].totalChecks >= 2

(* C10: while the UTC day does not change, the totalChecks of every probe  *)
(* id in the day's file never decreases, whichever step is taken           *)
(* (aggregation or retention).                                             *)
C10_TotalChecksMonotonic ==
    [][today' = today =>
          LET t == DateStr(today)
          IN  Readable(fs, t) =>
                \A id \in DOMAIN fs[t].data.summary :
                    /\ Readable(fs', t)
                    /\ id \in DOMAIN fs'[t].data.summary
                    /\ fs'[t].data.summary[id].totalChecks >=
                          fs[t].data.summary[id].totalChecks]_vars

\* the second aggregation of the day on top of a file of two earlier runs
C10_Witness ==
    /\ pc = "cleanup"
    /\ runs = 2
    /\ Readable(fs, DateStr(today))
    /\ \E id \in DOMAIN fs[DateStr(today)].data.summary :
          fs[DateStr(today)].data.summary[id].totalChecks = 4


(* C11: when the batch has completed, the entry holds exactly one result
   per probe, keyed by the probe's id: as many results as probes, and
   under each probe's id the result that probe returned. *)
C11_OneResultPerProbe ==
    pc \in {"report", "aggregate", "cleanup", "done"} =>
        /\ Cardinality(DOMAIN checkEntry.results) = Len(checks)
        /\ \A i \in DOMAIN checks :
              /\ checks[i].id \in DOMAIN checkEntry.results
              /\ checkEntry.results[checks[i].id] = presult[i]

(* C12: a probe whose response has an accepted status code and passes its
   validation rule (if it has one) is degraded when the elapsed time is
   strictly more than half its timeout and up otherwise; exactly half the
   timeout is up. *)
C12_DegradedThreshold ==
    \A i \in DOMAIN checks :
        LET r == presult[i]
            c == checks[i]
        IN  (/\ pstate[i] = "done"
             /\ r.statusCode \in c.expectedStatusCodes
             /\ (c.validate => r.status # "down"))
            => r.status = IF 2 * r.responseTime > c.timeout
                          THEN "degraded" ELSE "up"

C12_Witness ==
    /\ pc = "report"
    /\ \E i, j \in DOMAIN checks :
          /\ checks[i].timeout = 6000
          /\ presult[i] = Result("up", 3000, 200)
          /\ checks[j].timeout = 10000
          /\ presult[j] = Result("degraded", 6000, 200)

(* C13: every result executeCheck returns, on any path, has a status among
   up, degraded and down, and a result whose statusCode is 0 is down. *)
C13_ResultWellFormed ==
    /\ \A i \in DOMAIN checks :
          pstate[i] = "done" =>
              /\ presult[i].status \in Statuses
              /\ presult[i].statusCode = 0 => presult[i].status = "down"
    /\ \A id \in DOMAIN results :
          /\ results[id].status \in Statuses
          /\ results[id].statusCode = 0 => results[id].status = "down"

C13_Witness ==
    /\ pc = "report"
    /\ \E i, j \in DOMAIN checks :
          /\ presult[i].statusCode = 0
          /\ presult[i].status = "down"
          /\ presult[j].statusCode = 200
          /\ presult[j].status = "degraded"
          /\ checkEntry.results[checks[i].id] = presult[i]
          /\ checkEntry.results[checks[j].id] = presult[j]

(* C14: a response whose status code is not among the accepted ones gives
   a down result; a response with an accepted code whose body is not JSON
   or whose field differs from the expected value gives a down result
   whatever the latency; in both cases the result carries the status code
   of the response, which is not 0. *)
C14_RejectedResponseIsDown ==
    [][\A i \in DOMAIN checks :
          /\ \A code \in StatusCodes :
                (FetchResolves(i, code) /\ code \notin checks[i].expectedStatusCodes)
                => /\ presult'[i] = Result("down", elapsed, code)
                   /\ code # 0
                   /\ results'[checks[i].id] = presult'[i]
          /\ \A body \in Bodies \ {"match"} :
                BodySettles(i, body)
                => /\ presult'[i].status = "down"
                   /\ presult'[i].statusCode = presult[i].statusCode
                   /\ presult'[i].statusCode \in checks[i].expectedStatusCodes
                   /\ presult'[i].statusCode # 0
                   /\ results'[checks[i].id] = presult'[i]]_vars

C14_Witness ==
    /\ pc = "report"
    /\ \E i, j \in DOMAIN checks :
          /\ checks[i].validate
          /\ presult[i] = Result("down", 0, 200)
          /\ presult[j].status = "down"
          /\ presult[j].statusCode = 500
          /\ checkEntry.results[checks[i].id] = presult[i]
          /\ checkEntry.results[checks[j].id] = presult[j]

(* C15: when fetch rejects or the timer aborts the request, executeCheck
   throws nothing: the run goes on, and the probe's result is down with
   statusCode 0 and a responseTime equal to the time elapsed since the
   request was issued, which is never negative (and not less than the
   timeout when the timer fired). *)
C15_FailureIsDownResult ==
    [][\A i \in DOMAIN checks :
          (FetchRejects(i) \/ TimerFires(i))
          => /\ presult'[i].status = "down"
             /\ presult'[i].statusCode = 0
             /\ presult'[i].responseTime = elapsed
             /\ presult'[i].responseTime >= 0
             /\ TimerFires(i) => presult'[i].responseTime >= checks[i].timeout
             /\ results'[checks[i].id] = presult'[i]
             /\ pc' = "checking"
             /\ exitCode' = 0]_vars

C15_Witness ==
    /\ pc = "done"
    /\ exitCode = 0
    /\ \E i, j \in DOMAIN checks :
          /\ checks[i].id # checks[j].id
          /\ presult[i] = Result("down", checks[i].timeout, 0)
          /\ presult[j] = Result("down", 3000, 0)
          /\ checks[j].timeout > 3000


Abs(x) == IF x < 0 THEN 0 - x ELSE x

\* the stored summary of `id` in today's record, zeros when there is none
StoredSummary(dir, t, id) ==
    IF Readable(dir, t) /\ id \in DOMAIN dir[t].data.summary
    THEN dir[t].data.summary[id]
    ELSE [totalChecks |-> 0, upChecks |-> 0, degradedChecks |-> 0,
          downChecks |-> 0, avgResponseTime |-> 0, p95ResponseTime |-> 0]

(* C16: an aggregation adds one to totalChecks and to exactly the counter
   of the result's status, for every id of the entry, and sets
   uptimePercent to (up + degraded) / total * 100 rounded to two decimals:
   a degraded result counts as available. *)
C16_CountersAndUptime ==
    [][(Leaves("aggregate") /\ pc' = "cleanup") =>
          \A id \in DOMAIN checkEntry.results :
             LET old == StoredSummary(fs, DateStr(today), id)
                 new == fs'[DateStr(today)].data.summary[id]
                 st == checkEntry.results[id].status
                 One(x) == IF st = x THEN 1 ELSE 0
             IN  /\ new.totalChecks = old.totalChecks + 1
                 /\ new.upChecks = old.upChecks + One("up")
                 /\ new.degradedChecks = old.degradedChecks + One("degraded")
                 /\ new.downChecks = old.downChecks + One("down")
                 /\ 2 * Abs(new.uptimePercent * new.totalChecks
                            - (new.upChecks + new.degradedChecks) * 10000)
                       <= new.totalChecks]_vars

C16_Witness ==
    /\ pc = "cleanup"
    /\ \E id \in DOMAIN checkEntry.results :
          LET s == fs[DateStr(today)].data.summary[id]
          IN  /\ checkEntry.results[id].status = "degraded"
              /\ s.upChecks = 1
              /\ s.degradedChecks = 1
              /\ s.downChecks = 1
              /\ s.uptimePercent = 6667

\* the entries of `cs` that hold a strictly positive response time for `id`
Sampled(cs, id) ==
    {k \in DOMAIN cs : id \in DOMAIN cs[k].results
                       /\ cs[k].results[id].responseTime > 0}

RECURSIVE SumOver(_, _, _)
SumOver(K, cs, id) ==
    IF K = {} THEN 0
    ELSE LET k == CHOOSE x \in K : TRUE
         IN  cs[k].results[id].responseTime + SumOver(K \ {k}, cs, id)

\* the least integer not below 0.95 * n
Ceil95(n) == CHOOSE c \in 0..n : 20 * c >= 19 * n /\ 20 * (c - 1) < 19 * n

(* C17: after an aggregation, with S the strictly positive response times
   of the probe over the entries recorded so far today: when S is not
   empty, avgResponseTime is the mean of S rounded to the nearest integer
   and p95ResponseTime is the element of rank max(0, ceil(0.95 n) - 1) of
   S in ascending order; when S is empty both fields keep their previous
   values, 0 for a fresh summary. *)
C17_LatencyStatistics ==
    [][(Leaves("aggregate") /\ pc' = "cleanup") =>
          \A id \in DOMAIN checkEntry.results :
             LET t == DateStr(today)
                 old == StoredSummary(fs, t, id)
                 new == fs'[t].data.summary[id]
                 cs == fs'[t].data.checks
                 K == Sampled(cs, id)
                 n == Cardinality(K)
                 time(k) == cs[k].results[id].responseTime
                 rank == IF Ceil95(n) - 1 > 0 THEN Ceil95(n) - 1 ELSE 0
                 v == new.p95ResponseTime
             IN  IF n = 0
                 THEN /\ new.avgResponseTime = old.avgResponseTime
                      /\ new.p95ResponseTime = old.p95ResponseTime
                 ELSE /\ 2 * Abs(new.avgResponseTime * n - SumOver(K, cs, id)) <= n
                      /\ \E k \in K : time(k) = v
                      /\ Cardinality({k \in K : time(k) < v}) <= rank
                      /\ Cardinality({k \in K : time(k) <= v}) > rank]_vars

C17_Witness ==
    /\ pc = "cleanup"
    /\ LET d == fs[DateStr(today)].data
       IN  /\ Len(d.checks) = 5
           /\ [k \in 1..5 |-> d.checks[k].results["api"].responseTime]
                 = <<100, 120, 110, 500, 105>>
           /\ d.summary["api"].p95ResponseTime = 500
           /\ d.summary["api"].avgResponseTime = 187


(* C18: a run whose config.json is missing or does not parse ends with the
   error reported and exit code 1 before main is entered: it issues no
   probe request, and creates, modifies and deletes no daily record. *)
C18_FatalBeforeChecks ==
    /\ [](~config.parsed =>
             /\ pc \in {"load", "failed"}
             /\ checks = <<>>
             /\ pstate = <<>>
             /\ checkEntry = NoEntry
             /\ fsOps = {}
             /\ pc = "failed" => (exitCode = 1 /\ log = <<"Monitor failed">>))
    /\ [][~config.parsed =>
             /\ fs' = fs
             /\ Leaves("load") => (pc' = "failed" /\ exitCode' = 1)]_vars

C18_Witness ==
    /\ ~config.parsed
    /\ pc = "failed"
    /\ exitCode = 1
    /\ runs = 2
    /\ fs = DirHistory

\* a record that still has its entries two days or more after its date
Stale(dir, f, day) ==
    /\ Readable(dir, f)
    /\ dir[f].data.checks # <<>>
    /\ DayNum(f) + 2 <= day

\* no step changes a stale record: it keeps its entries until it is deleted
StaleStaysStale ==
    [][\A f \in DOMAIN fs :
          Stale(fs, f, today) => (f \notin DOMAIN fs' \/ fs'[f] = fs[f])]_vars

(* C19: every record that was created is eventually compacted, whatever
   the schedule of the runs, also when no run happens on the day that
   follows the record's date. No step clears the entries of a stale record
   (StaleStaysStale), so the claim requires that a completed run leaves
   none of the records the runs wrote stale. *)
C19_EveryRecordCompacted ==
    pc = "done" =>
        \A f \in DOMAIN fs : DayNum(f) >= StartDay => ~Stale(fs, f, today)

(* C20: every entry stored in the daily record dated D has a timestamp
   whose UTC date is D, also for a run whose probes are in flight across
   UTC midnight. *)
C20_EntryDatedAsRecord ==
    \A f \in DOMAIN fs :
        Readable(fs, f) =>
            \A k \in DOMAIN fs[f].data.checks :
                fs[f].data.checks[k].timestamp = f


\* the entries of `cs` that hold a result for `id`
Holding(cs, id) == {k \in DOMAIN cs : id \in DOMAIN cs[k].results}

(* C21: in every stored daily record that has entries, the totalChecks of
   each probe id of the summary is the number of entries that hold a
   result for that id, and each id that some entry holds has a summary
   with totalChecks of at least 1. *)
C21_TotalMatchesEntries ==
    \A f \in DOMAIN fs :
        (Readable(fs, f) /\ fs[f].data.checks # <<>>) =>
            LET d == fs[f].data
            IN  /\ \A id \in DOMAIN d.summary :
                      d.summary[id].totalChecks = Cardinality(Holding(d.checks, id))
                /\ \A k \in DOMAIN d.checks :
                      \A id \in DOMAIN d.checks[k].results :
                          /\ id \in DOMAIN d.summary
                          /\ d.summary[id].totalChecks >= 1

C21_Witness ==
    /\ pc = "done"
    /\ runs = 2
    /\ Readable(fs, DateStr(today))
    /\ Readable(fs, DateStr(today - 89))
    /\ LET d == fs[DateStr(today)].data
           c == fs[DateStr(today - 89)].data
       IN  /\ Len(d.checks) = 4
           /\ Cardinality(Holding(d.checks, "cdn")) = 2
           /\ d.summary["api"].totalChecks = 4
           /\ d.summary["cdn"].totalChecks = 2
           /\ c.checks = <<>>
           /\ c.summary["api"].totalChecks = 2


(* C22: retention neither deletes nor modifies today's record and deletes
   no record dated within the 90 days the status page reads, today - 89
   to today; the one change it makes to a record of that window is to
   clear the entries of the record dated yesterday. *)
C22_RetentionSparesWindow ==
    [][Leaves("cleanup") =>
          LET window == Range(getDatesRange(DAYS_TO_SHOW, today))
              t == DateStr(today)
              y == YesterdayStr(today)
          IN  /\ t \in window
              /\ DateStr(today - 89) \in window
              /\ \A f \in DOMAIN fs \cap window :
                    /\ f \in DOMAIN fs'
                    /\ <<"unlink", f>> \notin fsOps'
                    /\ f = t => (fs'[f] = fs[f] /\ <<"write", f>> \notin fsOps')
                    /\ fs'[f] # fs[f] =>
                          /\ f = y
                          /\ fs'[f] = [fs[f] EXCEPT !.data.checks = <<>>]]_vars

C22_Witness ==
    /\ pc = "done"
    /\ today = StartDay + 1
    /\ <<"unlink", DateStr(today - 91)>> \in fsOps
    /\ <<"write", YesterdayStr(today)>> \in fsOps
    /\ Readable(fs, DateStr(today))
    /\ fs[DateStr(today)].data.checks # <<>>
    /\ Readable(fs, YesterdayStr(today))
    /\ fs[YesterdayStr(today)].data.checks = <<>>
    /\ DateStr(today - 3) \in DOMAIN fs
    /\ fs[DateStr(today - 3)] = FullFile(today - 3)

====
